---- MODULE Spec2Model ----
(***************************************************************************)
(* Model of the Hub collector sketch (src/unnamed/part_001): the ESP-NOW   *)
(* receive callback OnDataRecv, setup() and loop(), with the shared        *)
(* tables nodeSignals / nodeMacs and the CSV line written to Serial; and   *)
(* of the Satellite sketch (src/unnamed/part_002): setup() and loop().     *)
(* Spec runs the Hub, SatSpec the Satellite.                               *)
(*                                                                         *)
(* Strings are sequences of one-character strings, so that String(int),    *)
(* the comma-joined line and its parsing are computed, not assumed.        *)
(*                                                                         *)
(* Scheduling: OnDataRecv runs to completion, and may run between any two  *)
(* steps of setup() or loop() once it has been registered.                 *)
(***************************************************************************)
EXTENDS Integers, Sequences, FiniteSets, TLC

(***************************************************************************)
(* Bounds of the model.                                                    *)
(***************************************************************************)
\* number of ESP-NOW deliveries in one run
MaxDeliveries == 2
\* longest scan result list
MaxScan == 2
\* calls of esp_now_send followed within one cycle of the Satellite
MaxSends == 3

(***************************************************************************)
(* Program constants.                                                      *)
(***************************************************************************)
\* last index of nodeSignals[11] / nodeMacs[11], last identity serialised
MaxNode == 10
\* first identity accepted from remote nodes
MinRemoteNode == 2
\* the "offline" reading
SentinelRSSI == 0 - 100
\* sizeof(struct_message): int id, int rssi, char mac[18], padded to 4 bytes
SizeofStructMessage == 28

\* const char* targetSSID = "XXX"
targetSSID == <<"X", "X", "X">>
\* "00:00:00:00:00:00"
SentinelMac ==
    <<"0","0",":","0","0",":","0","0",":","0","0",":","0","0",":","0","0">>
\* "DATA"
DataTag == <<"D", "A", "T", "A">>
Comma == <<",">>
\* Serial.println("Error initializing ESP-NOW")
InitErrorLine ==
    <<"E","r","r","o","r"," ","i","n","i","t","i","a","l","i","z","i","n","g"," ","E","S","P","-","N","O","W">>
\* Serial.println("Hub Setup Complete. Awaiting Node Data...")
SetupCompleteLine ==
    <<"H","u","b"," ","S","e","t","u","p"," ","C","o","m","p","l","e","t","e","."," ","A","w","a","i","t","i","n","g"," ","N","o","d","e"," ","D","a","t","a",".",".",".">>

(***************************************************************************)
(* The environment: what WiFi and ESP-NOW can hand to the sketch.          *)
(***************************************************************************)
\* WiFi.macAddress() of the Hub
HubMac ==
    <<"5","C",":","C","F",":","7","F",":","0","0",":","0","0",":","0","1">>
MacA ==
    <<"A","A",":","B","B",":","C","C",":","D","D",":","E","E",":","F","F">>
MacB ==
    <<"1","1",":","2","2",":","3","3",":","4","4",":","5","5",":","6","6">>
\* a mac field that is not an address: nothing in the handler looks at it
MacComma == <<"A", ",", "B">>

OtherSSID == <<"o", "t", "h", "e", "r">>
ScanEntries ==
    { [ssid |-> targetSSID, rssi |-> 0 - 50],
      [ssid |-> OtherSSID, rssi |-> 0 - 30] }

RECURSIVE SeqsUpTo(_, _)
SeqsUpTo(S, n) ==
    IF n = 0 THEN {<<>>}
    ELSE LET shorter == SeqsUpTo(S, n - 1)
         IN  shorter \cup {Append(s, x) : s \in shorter, x \in S}

\* WiFi.scanNetworks returns the number of networks found, or a negative
\* code when the scan failed; nets is what SSID(i) / RSSI(i) then answer.
ScanResults ==
    {[n |-> Len(nets), nets |-> nets] : nets \in SeqsUpTo(ScanEntries, MaxScan)}
        \cup {[n |-> 0 - 2, nets |-> <<>>]}

\* A delivery: buf is the sizeof(incoming) bytes memcpy reads at incomingData,
\* seen as a struct_message (mac: the characters before the first NUL);
\* len is the length the radio reports.  When len is shorter than the struct
\* the bytes past len are whatever lies behind the payload.
Msg(id, rssi, mac, len) ==
    [buf |-> [id |-> id, rssi |-> rssi, mac |-> mac], len |-> len]

\* records the handler stores
ValidDeliveries ==
    { Msg(2, 0 - 60, MacA, SizeofStructMessage),
      Msg(2, 0 - 55, MacB, SizeofStructMessage),
      Msg(10, 0 - 42, MacComma, SizeofStructMessage) }

\* identity out of range, reading not negative
InvalidDeliveries ==
    { Msg(1, 0 - 60, MacA, SizeofStructMessage),
      Msg(11, 0 - 55, MacB, SizeofStructMessage),
      Msg(0, 0 - 42, MacA, SizeofStructMessage),
      Msg(0 - 1, 0 - 60, MacA, SizeofStructMessage),
      Msg(2, 0, MacA, SizeofStructMessage),
      Msg(10, 31, MacB, SizeofStructMessage) }

\* payloads that are longer or shorter than the struct
WrongSizeDeliveries ==
    { Msg(2, 0 - 60, MacA, SizeofStructMessage + 1),
      Msg(10, 0 - 42, MacB, SizeofStructMessage - 2) }

Deliveries == ValidDeliveries \cup InvalidDeliveries \cup WrongSizeDeliveries

(***************************************************************************)
(* Arduino String(int): decimal text.                                      *)
(***************************************************************************)
DigitChars == <<"0", "1", "2", "3", "4", "5", "6", "7", "8", "9">>

RECURSIVE NatToStr(_)
NatToStr(n) ==
    IF n < 10 THEN <<DigitChars[n + 1]>>
    ELSE NatToStr(n \div 10) \o <<DigitChars[(n % 10) + 1]>>

StringOfInt(n) == IF n < 0 THEN <<"-">> \o NatToStr(0 - n) ELSE NatToStr(n)

(***************************************************************************)
(* The host side of the line format: split at commas, read the integers.   *)
(***************************************************************************)
\* the first comma of a line at or after position k; Len + 1 when there is none
RECURSIVE NextComma(_, _)
NextComma(line, k) ==
    IF k > Len(line) THEN Len(line) + 1
    ELSE IF line[k] = "," THEN k
    ELSE NextComma(line, k + 1)

\* position of the j-th comma of a line; 0 for j = 0, Len + 1 past the last
RECURSIVE CommaPos(_, _)
CommaPos(line, j) ==
    IF j = 0 THEN 0 ELSE NextComma(line, CommaPos(line, j - 1) + 1)

\* number of comma-separated fields of a line
FieldCount(line) == Cardinality({k \in 1 .. Len(line) : line[k] = ","}) + 1

\* field k of a line, counted from 0; the empty text when there is none
Field(line, k) ==
    IF k >= FieldCount(line) THEN <<>>
    ELSE SubSeq(line, CommaPos(line, k) + 1, CommaPos(line, k + 1) - 1)

\* the text of a line from field k on
FromField(line, k) ==
    IF k >= FieldCount(line) THEN <<>>
    ELSE SubSeq(line, CommaPos(line, k) + 1, Len(line))

IsDigit(c) == \E d \in 1 .. 10 : DigitChars[d] = c

DigitVal(c) == (CHOOSE d \in 1 .. 10 : DigitChars[d] = c) - 1

RECURSIVE DigitsValue(_, _, _)
DigitsValue(text, k, acc) ==
    IF k > Len(text) THEN acc
    ELSE DigitsValue(text, k + 1, 10 * acc + DigitVal(text[k]))

IsNatText(text) == Len(text) > 0 /\ \A k \in 1 .. Len(text) : IsDigit(text[k])

\* the integer a field denotes: {n}, or {} when the field is not decimal text
ParseInt(text) ==
    IF IsNatText(text) THEN {DigitsValue(text, 1, 0)}
    ELSE IF Len(text) > 1 /\ text[1] = "-" /\ IsNatText(Tail(text))
         THEN {0 - DigitsValue(Tail(text), 1, 0)}
    ELSE {}

\* a DATA line starts with the tag
IsDataLine(line) == Len(line) >= Len(DataTag) /\ SubSeq(line, 1, Len(DataTag)) = DataTag

\* the (reading, address) pairs of identities 1..10 read back from a line
ParsePairs(line) ==
    [i \in 1 .. MaxNode |->
        [reading |-> ParseInt(Field(line, 2 * i - 1)), address |-> Field(line, 2 * i)]]

(***************************************************************************)
(* State.                                                                  *)
(***************************************************************************)
VARIABLES
    hubPc,          \* position of the Hub in setup() / loop()
    recvRegistered, \* esp_now_register_recv_cb has been called
    incoming,       \* struct_message incoming
    nodeSignals,    \* int nodeSignals[11]
    nodeMacs,       \* String nodeMacs[11]
    baseRSSI,       \* loop(): int baseRSSI
    loopI,          \* the index i of the for loops
    output,         \* loop(): String output
    serial,         \* the last line written with Serial.println
    delivered,      \* number of deliveries so far
    rxLen,          \* the len argument of the last delivery
    repeat,         \* history: length of the current run of identical deliveries
    acceptedIds,    \* history: identities for which a record was accepted
    everFound,      \* history: some scan held an entry labelled targetSSID
    shadow,         \* history: output as built had the scan found the target
    serialShadow,   \* history: shadow of the last DATA line written
    pending,        \* history: per identity, the records accepted between the
                    \* last Serial.println and the start of the next line
    scanNone,       \* history: the last scan of loop() failed or found nothing
    lines,          \* history: DATA lines written since the last scan
    satPc,          \* Satellite: position in setup() / loop()
    satEspNow,      \* Satellite: esp_now_init() returned 0
    peerAdded,      \* Satellite: the Hub is a registered peer
    strongestRSSI,  \* Satellite loop(): int strongestRSSI
    myData,         \* Satellite: struct_message myData
    satSerial,      \* Satellite: the last line written to Serial
    satScan,        \* history: what this cycle's scan returned
    sendCount,      \* history: calls of esp_now_send in this cycle
    sendResult,     \* history: what the last esp_now_send returned
    sentRecord,     \* history: the record handed to the last esp_now_send
    unpairedSend    \* history: esp_now_send was called with no peer registered

vars == <<hubPc, recvRegistered, incoming, nodeSignals, nodeMacs, baseRSSI,
          loopI, output, serial, delivered, rxLen, repeat, acceptedIds,
          everFound, shadow, serialShadow, pending, scanNone, lines,
          satPc, satEspNow, peerAdded, strongestRSSI, myData, satSerial,
          satScan, sendCount, sendResult, sentRecord, unpairedSend>>

hubVars == <<hubPc, baseRSSI, loopI, output, serial, everFound, shadow,
             serialShadow, scanNone, lines>>
\* the Satellite's state
satVars == <<satPc, satEspNow, peerAdded, strongestRSSI, myData, satSerial,
             satScan, sendCount, sendResult, sentRecord, unpairedSend>>
tableVars == <<nodeSignals, nodeMacs>>
recvVars == <<incoming, delivered, rxLen, acceptedIds>>

Slots == 0 .. MaxNode
RemoteNodes == MinRemoteNode .. MaxNode

\* the reading the shadow line carries for the Hub
FoundRSSI == 0 - 50

\* globals are zero-initialised: int 0, empty String, zeroed struct
Init ==
    /\ hubPc = "setup"
    /\ recvRegistered = FALSE
    /\ incoming = [id |-> 0, rssi |-> 0, mac |-> <<>>]
    /\ nodeSignals = [i \in Slots |-> 0]
    /\ nodeMacs = [i \in Slots |-> <<>>]
    /\ baseRSSI = 0
    /\ loopI = 0
    /\ output = <<>>
    /\ serial = <<>>
    /\ delivered = 0
    /\ rxLen = 0
    /\ repeat = 0
    /\ acceptedIds = {}
    /\ everFound = FALSE
    /\ shadow = <<>>
    /\ serialShadow = <<>>
    /\ pending = [i \in RemoteNodes |-> <<>>]
    /\ scanNone = FALSE
    /\ lines = 0
    /\ satPc = "setup"
    /\ satEspNow = FALSE
    /\ peerAdded = FALSE
    /\ strongestRSSI = 0
    /\ myData = [id |-> 0, rssi |-> 0, mac |-> <<>>]
    /\ satSerial = <<>>
    /\ satScan = [n |-> 0, nets |-> <<>>]
    /\ sendCount = 0
    /\ sendResult = 0
    /\ sentRecord = [id |-> 0, rssi |-> 0, mac |-> <<>>]
    /\ unpairedSend = FALSE

(***************************************************************************)
(* OnDataRecv: the ESP-NOW receive callback.                               *)
(***************************************************************************)
\* the lower bound off by one
ValidIdFromOne(id) == id >= MinRemoteNode - 1 /\ id <= MaxNode

\* if (incoming.id >= 2 && incoming.id <= 10)
ValidId(id) == id >= MinRemoteNode /\ id <= MaxNode

\* <= for <
ValidRssiOrZero(rssi) == rssi <= 0

\* if (incoming.rssi < 0)
ValidRssi(rssi) == rssi < 0

\* the two nested ifs: the record is stored
Accepts(buf, len) == ValidId(buf.id) /\ ValidRssi(buf.rssi)

\* += for =
StoreSignalAdd(signals, msg) == [signals EXCEPT ![msg.id] = @ + msg.rssi]

\* nodeSignals[incoming.id] = incoming.rssi
StoreSignal(signals, msg) == [signals EXCEPT ![msg.id] = msg.rssi]

\* the address also lands in the slot before
StoreMacAndPrev(macs, msg) ==
    [macs EXCEPT ![msg.id] = msg.mac, ![msg.id - 1] = msg.mac]

\* nodeMacs[incoming.id] = String(incoming.mac)
StoreMac(macs, msg) == [macs EXCEPT ![msg.id] = msg.mac]

\* loop() is between Serial.println and the next String output = "DATA"
BetweenLines == hubPc \in {"delay", "scan", "start"}

\* the table after the callback has run on buf
RecvSignals(signals, buf, len) ==
    IF Accepts(buf, len) THEN StoreSignal(signals, buf) ELSE signals

RecvMacTable(macs, buf, len) ==
    IF Accepts(buf, len) THEN StoreMac(macs, buf) ELSE macs

\* memcpy(&incoming, incomingData, sizeof(incoming)) copies sizeof(incoming)
\* bytes whatever len is; then the two ifs and the two stores.
OnDataRecv(buf, len) ==
    /\ recvRegistered
    /\ delivered < MaxDeliveries
    /\ incoming' = buf
    /\ nodeSignals' = RecvSignals(nodeSignals, buf, len)
    /\ nodeMacs' = RecvMacTable(nodeMacs, buf, len)
    /\ acceptedIds' = IF Accepts(buf, len) THEN acceptedIds \cup {buf.id}
                      ELSE acceptedIds
    /\ delivered' = delivered + 1
    /\ rxLen' = len
    /\ repeat' = IF repeat > 0 /\ buf = incoming /\ len = rxLen
                 THEN repeat + 1 ELSE 1
    /\ pending' = IF ~Accepts(buf, len) THEN pending
                  ELSE IF BetweenLines
                       THEN [pending EXCEPT ![buf.id] = Append(@, buf)]
                  ELSE [pending EXCEPT ![buf.id] = <<>>]
    /\ UNCHANGED <<recvRegistered, hubVars, satVars>>

(***************************************************************************)
(* setup()                                                                 *)
(***************************************************************************)
\* esp_now_init() != 0: print the error and return; loop() runs all the same
SetupInitFailed ==
    /\ hubPc = "setup"
    /\ serial' = InitErrorLine
    /\ hubPc' = "scan"
    /\ repeat' = 0
    /\ UNCHANGED <<satVars, scanNone, lines, recvRegistered, tableVars, recvVars, baseRSSI, loopI, output,
                   everFound, shadow, serialShadow, pending>>

\* esp_now_init() == 0, esp_now_set_self_role, esp_now_register_recv_cb
SetupRegister ==
    /\ hubPc = "setup"
    /\ recvRegistered' = TRUE
    /\ hubPc' = "init"
    /\ loopI' = 0
    /\ repeat' = 0
    /\ UNCHANGED <<satVars, scanNone, lines, tableVars, recvVars, baseRSSI, output, serial, everFound,
                   shadow, serialShadow, pending>>

\* for (int i = 0; i <= 10; i++) { nodeSignals[i] = -100; nodeMacs[i] = "00:.." }
SetupInitSlot ==
    /\ hubPc = "init"
    /\ loopI <= MaxNode
    /\ nodeSignals' = [nodeSignals EXCEPT ![loopI] = SentinelRSSI]
    /\ nodeMacs' = [nodeMacs EXCEPT ![loopI] = SentinelMac]
    /\ loopI' = loopI + 1
    /\ repeat' = 0
    /\ UNCHANGED <<satVars, scanNone, lines, hubPc, recvRegistered, recvVars, baseRSSI, output, serial,
                   everFound, shadow, serialShadow, pending>>

\* Serial.println("Hub Setup Complete. Awaiting Node Data...")
SetupComplete ==
    /\ hubPc = "init"
    /\ loopI > MaxNode
    /\ serial' = SetupCompleteLine
    /\ hubPc' = "scan"
    /\ repeat' = 0
    /\ UNCHANGED <<satVars, scanNone, lines, recvRegistered, tableVars, recvVars, baseRSSI, loopI, output,
                   everFound, shadow, serialShadow, pending>>

(***************************************************************************)
(* loop()                                                                  *)
(***************************************************************************)
\* the strongest entry taken whatever its label
SearchStrongest(res, i, base) == IF res.n > 0 THEN res.nets[1].rssi ELSE base

\* for (i = 0; i < n; ++i) if (WiFi.SSID(i) == targetSSID) { base = RSSI(i); break; }
RECURSIVE SearchTarget(_, _, _)
SearchTarget(res, i, base) ==
    IF ~(i < res.n) THEN base
    ELSE IF res.nets[i + 1].ssid = targetSSID THEN res.nets[i + 1].rssi
    ELSE SearchTarget(res, i + 1, base)

HasTarget(res) == \E k \in 1 .. Len(res.nets) : res.nets[k].ssid = targetSSID

\* a scan that failed or found nothing ends the pass
AfterScanAbort(res) == IF res.n > 0 THEN "start" ELSE "delay"

\* after WiFi.scanDelete() loop() goes on to build the line, whatever n was
AfterScan(res) == "start"

\* int baseRSSI = -100; n = WiFi.scanNetworks(..); the search; scanDelete
LoopScan(res) ==
    /\ hubPc = "scan"
    /\ baseRSSI' = SearchTarget(res, 0, SentinelRSSI)
    /\ everFound' = (everFound \/ HasTarget(res))
    /\ scanNone' = ~(res.n > 0)
    /\ lines' = 0
    /\ hubPc' = AfterScan(res)
    /\ repeat' = 0
    /\ UNCHANGED <<satVars, recvRegistered, tableVars, recvVars, loopI, output, serial,
                   shadow, serialShadow, pending>>

\* String output = "DATA"; i = 1
LoopStart ==
    /\ hubPc = "start"
    /\ output' = DataTag
    /\ shadow' = DataTag
    /\ loopI' = 1
    /\ hubPc' = "slot"
    /\ repeat' = 0
    /\ UNCHANGED <<satVars, scanNone, lines, recvRegistered, tableVars, recvVars, baseRSSI, serial,
                   everFound, serialShadow, pending>>

\* i == 1: the text appended for the Hub itself
HubPair(rssi) == Comma \o StringOfInt(rssi) \o Comma \o HubMac

\* i > 1: output += ","; then String(nodeSignals[i]) + "," is evaluated
SignalPart(i) == Comma \o StringOfInt(nodeSignals[i]) \o Comma

\* i > 1: ... + nodeMacs[i] is evaluated and the sum appended
MacPart(i) == nodeMacs[i]

LoopSlotHub ==
    /\ hubPc = "slot"
    /\ loopI = 1
    /\ output' = output \o HubPair(baseRSSI)
    /\ shadow' = shadow \o HubPair(FoundRSSI)
    /\ loopI' = loopI + 1
    /\ repeat' = 0
    /\ UNCHANGED <<satVars, scanNone, lines, hubPc, recvRegistered, tableVars, recvVars, baseRSSI, serial,
                   everFound, serialShadow, pending>>

LoopSlotSignal ==
    /\ hubPc = "slot"
    /\ loopI > 1
    /\ output' = output \o SignalPart(loopI)
    /\ shadow' = shadow \o SignalPart(loopI)
    /\ hubPc' = "mac"
    /\ repeat' = 0
    /\ UNCHANGED <<satVars, scanNone, lines, recvRegistered, tableVars, recvVars, baseRSSI, loopI, serial,
                   everFound, serialShadow, pending>>

\* the for loop runs while i <= 10
LastSlot(i) == i >= MaxNode

LoopSlotMac ==
    /\ hubPc = "mac"
    /\ output' = output \o MacPart(loopI)
    /\ shadow' = shadow \o MacPart(loopI)
    /\ loopI' = loopI + 1
    /\ hubPc' = IF LastSlot(loopI) THEN "print" ELSE "slot"
    /\ repeat' = 0
    /\ UNCHANGED <<satVars, scanNone, lines, recvRegistered, tableVars, recvVars, baseRSSI, serial,
                   everFound, serialShadow, pending>>

\* Serial.println(output)
LoopPrint ==
    /\ hubPc = "print"
    /\ serial' = output
    /\ serialShadow' = shadow
    /\ hubPc' = "delay"
    /\ repeat' = 0
    /\ UNCHANGED <<satVars, scanNone, recvRegistered, tableVars, recvVars, baseRSSI, loopI, output,
                   everFound, shadow>>
    /\ pending' = [i \in RemoteNodes |-> <<>>]
    /\ lines' = lines + 1

\* delay(100); loop() returns and is called again
LoopDelay ==
    /\ hubPc = "delay"
    /\ hubPc' = "scan"
    /\ repeat' = 0
    /\ UNCHANGED <<satVars, scanNone, lines, recvRegistered, tableVars, recvVars, baseRSSI, loopI, output,
                   serial, everFound, shadow, serialShadow, pending>>

Deliver == \E d \in Deliveries : OnDataRecv(d.buf, d.len)

Scan == \E res \in ScanResults : LoopScan(res)

\* the steps of setup() and loop()
HubStep ==
    \/ SetupInitFailed
    \/ SetupRegister
    \/ SetupInitSlot
    \/ SetupComplete
    \/ Scan
    \/ LoopStart
    \/ LoopSlotHub
    \/ LoopSlotSignal
    \/ LoopSlotMac
    \/ LoopPrint
    \/ LoopDelay

Next ==
    \/ Deliver
    \/ SetupInitFailed
    \/ SetupRegister
    \/ SetupInitSlot
    \/ SetupComplete
    \/ Scan
    \/ LoopStart
    \/ LoopSlotHub
    \/ LoopSlotSignal
    \/ LoopSlotMac
    \/ LoopPrint
    \/ LoopDelay

(***************************************************************************)
(* The Satellite sketch (src/unnamed/part_002).                            *)
(***************************************************************************)
\* const int NODE_ID = 9
NODE_ID == 9
\* the size given to toCharArray: char mac[18]
MacBufSize == 18
\* WiFi.macAddress() of the Satellite
SatMac ==
    <<"8","4",":","F","3",":","E","B",":","1","2",":","3","4",":","5","6">>

\* the readings a scan can hold
SatReadings == {0 - 30, 0 - 50, 0 - 70}

\* a list is ordered strongest first
StrongestFirst(rs) == \A k \in 1 .. Len(rs) - 1 : rs[k] >= rs[k + 1]

\* WiFi.scanNetworks(false, false): the number of networks found, or a
\* negative code; RSSI(i) answers from a list sorted by strength.
SatScanResults ==
    {[n |-> Len(rs), nets |-> rs] :
        rs \in {q \in SeqsUpTo(SatReadings, MaxScan) : StrongestFirst(q)}}
        \cup {[n |-> 0 - 2, nets |-> <<>>]}

\* esp_now_send / esp_now_add_peer answer 0 or an error code
EspOk == 0
EspErr == 1

\* String::toCharArray(buf, size): at most size - 1 characters, then NUL
ToCharArray(str, size) ==
    IF Len(str) <= size - 1 THEN str ELSE SubSeq(str, 1, size - 1)

\* Serial.println("Error initializing ESP-NOW") is InitErrorLine;
\* Serial.printf("Node %d initialized. Ready to transmit.\n", NODE_ID)
SatReadyLine ==
    <<"N","o","d","e"," ">> \o StringOfInt(NODE_ID)
        \o <<" ","i","n","i","t","i","a","l","i","z","e","d",".">>
        \o <<" ","R","e","a","d","y"," ","t","o"," ","t","r","a","n","s","m","i","t",".">>

\* Serial.printf("Node %d reporting RSSI: %d dBm to Hub\n", NODE_ID, strongestRSSI)
SatReportLine(rssi) ==
    <<"N","o","d","e"," ">> \o StringOfInt(NODE_ID)
        \o <<" ","r","e","p","o","r","t","i","n","g"," ","R","S","S","I",":"," ">>
        \o StringOfInt(rssi) \o <<" ","d","B","m"," ","t","o"," ","H","u","b">>

\* the other variables of the model
hubAll == <<hubPc, recvRegistered, incoming, nodeSignals, nodeMacs, baseRSSI,
            loopI, output, serial, delivered, rxLen, repeat, acceptedIds,
            everFound, shadow, serialShadow, pending, scanNone, lines>>

\* esp_now_init() != 0: print the error and return; loop() runs all the same
SatSetupInitFailed ==
    /\ satPc = "setup"
    /\ satSerial' = InitErrorLine
    /\ satPc' = "scan"
    /\ UNCHANGED <<satEspNow, peerAdded, strongestRSSI, myData, satScan,
                   sendCount, sendResult, sentRecord, unpairedSend, hubAll>>

\* esp_now_init() == 0; set_self_role; esp_now_add_peer, whose answer is not
\* looked at; the ready line
SatSetupOk(added) ==
    /\ satPc = "setup"
    /\ satEspNow' = TRUE
    /\ peerAdded' = (added = EspOk)
    /\ satSerial' = SatReadyLine
    /\ satPc' = "scan"
    /\ UNCHANGED <<strongestRSSI, myData, satScan, sendCount, sendResult,
                   sentRecord, unpairedSend, hubAll>>

\* index 0 replaced by the last index
PickLast(res) == IF res.n > 0 THEN res.nets[res.n] ELSE SentinelRSSI

\* int strongestRSSI = -100; if (n > 0) strongestRSSI = WiFi.RSSI(0)
PickReading(res) == IF res.n > 0 THEN res.nets[1] ELSE SentinelRSSI

\* int n = WiFi.scanNetworks(false, false) and the choice of the reading
SatLoopScan(res) ==
    /\ satPc = "scan"
    /\ strongestRSSI' = PickReading(res)
    /\ satScan' = res
    /\ sendCount' = 0
    /\ satPc' = "build"
    /\ UNCHANGED <<satEspNow, peerAdded, myData, satSerial, sendResult,
                   sentRecord, unpairedSend, hubAll>>

\* myData.id = NODE_ID; myData.rssi = strongestRSSI; macAddress().toCharArray
SatLoopBuild ==
    /\ satPc = "build"
    /\ myData' = [id |-> NODE_ID, rssi |-> strongestRSSI,
                  mac |-> ToCharArray(SatMac, MacBufSize)]
    /\ satPc' = "send"
    /\ UNCHANGED <<satEspNow, peerAdded, strongestRSSI, satSerial, satScan,
                   sendCount, sendResult, sentRecord, unpairedSend, hubAll>>

\* what esp_now_send can answer: an error when ESP-NOW is not up or the peer
\* is unknown, else success or a delivery error
SendAnswers ==
    IF satEspNow /\ peerAdded THEN {EspOk, EspErr} ELSE {EspErr}

\* a failed send is tried again
AfterSendRetry(ret) == IF ret = EspOk THEN "log" ELSE "send"

\* the statement after esp_now_send, whatever it answered
AfterSend(ret) == "log"

\* esp_now_send(collectorMAC, (uint8_t *) &myData, sizeof(myData))
SatLoopSend(ret) ==
    /\ satPc = "send"
    /\ sendCount < MaxSends
    /\ sendCount' = sendCount + 1
    /\ sendResult' = ret
    /\ sentRecord' = myData
    /\ unpairedSend' = (unpairedSend \/ ~peerAdded)
    /\ satPc' = AfterSend(ret)
    /\ UNCHANGED <<satEspNow, peerAdded, strongestRSSI, myData, satSerial,
                   satScan, hubAll>>

\* Serial.printf("Node %d reporting RSSI: %d dBm to Hub\n", ..)
SatLoopLog ==
    /\ satPc = "log"
    /\ satSerial' = SatReportLine(strongestRSSI)
    /\ satPc' = "delay"
    /\ UNCHANGED <<satEspNow, peerAdded, strongestRSSI, myData, satScan,
                   sendCount, sendResult, sentRecord, unpairedSend, hubAll>>

\* the step after the log line is back at the scan
AfterDelayStay == "delay"

\* delay(1000); loop() returns and is called again
AfterDelay == "scan"

SatLoopDelay ==
    /\ satPc = "delay"
    /\ satPc' = AfterDelay
    /\ UNCHANGED <<satEspNow, peerAdded, strongestRSSI, myData, satSerial,
                   satScan, sendCount, sendResult, sentRecord, unpairedSend,
                   hubAll>>

SatSetup == \E added \in {EspOk, EspErr} : SatSetupOk(added)

SatScan == \E res \in SatScanResults : SatLoopScan(res)

SatSend == \E ret \in SendAnswers : SatLoopSend(ret)

SatNext ==
    \/ SatSetupInitFailed
    \/ SatSetup
    \/ SatScan
    \/ SatLoopBuild
    \/ SatSend
    \/ SatLoopLog
    \/ SatLoopDelay

(***************************************************************************)
(* Properties.                                                             *)
(***************************************************************************)
\* a step of the receive callback
RecvStep == delivered' = delivered + 1

TableUnchanged == nodeSignals' = nodeSignals /\ nodeMacs' = nodeMacs

\* a DATA line has been written and is the last line on Serial
DataEmitted == IsDataLine(serial)

SentinelText == <<"-", "1", "0", "0">>

\* C1: a delivered record whose identity is outside [2,10] leaves every slot
\* of nodeSignals and nodeMacs as it was.
C1_InvalidIdentityRejected ==
    [][(RecvStep /\ (incoming'.id < 2 \/ incoming'.id > 10)) => TableUnchanged]_vars

\* a record with an identity out of range has just been delivered to a table
\* that already holds an accepted record
C1_Witness ==
    /\ repeat > 0
    /\ (incoming.id < 2 \/ incoming.id > 10)
    /\ incoming.rssi < 0
    /\ acceptedIds # {}

\* C2: a delivered record whose reading is >= 0 leaves every slot of the
\* table as it was, whatever its identity.
C2_NonNegativeReadingRejected ==
    [][(RecvStep /\ incoming'.rssi >= 0) => TableUnchanged]_vars

\* a record with a reading >= 0 and an identity in range has just been delivered
C2_Witness ==
    /\ repeat > 0
    /\ incoming.rssi >= 0
    /\ incoming.id >= 2 /\ incoming.id <= 10
    /\ acceptedIds # {}

\* C3: a delivery whose length is not sizeof(struct_message) never changes
\* the table.
C3_WrongSizeRejected ==
    [][(RecvStep /\ rxLen' # SizeofStructMessage) => TableUnchanged]_vars

\* C4: in every DATA line written, each identity 2..10 for which no record
\* has been accepted shows reading -100 and address 00:00:00:00:00:00.
C4_StartupSentinel ==
    DataEmitted =>
        \A i \in (2 .. 10) \ acceptedIds :
            /\ Field(serial, 2 * i - 1) = SentinelText
            /\ Field(serial, 2 * i) = SentinelMac

\* Serial.println(output) is the step taken
PrintStep == hubPc = "print" /\ hubPc' = "delay"

\* the line shows record rec for identity i: field 2i-1 its reading, field 2i
\* its address
Shows(line, i, rec) ==
    /\ Field(line, 2 * i - 1) = StringOfInt(rec.rssi)
    /\ Field(line, 2 * i) = rec.mac

\* C5: two valid records for identity i accepted one after the other between
\* two lines: the next line shows the later one's reading and address, and
\* not the earlier one's when they differ.
C5_LastWriterWins ==
    [][PrintStep =>
        \A i \in 2 .. 10 :
            Len(pending[i]) >= 2 =>
                LET later == pending[i][Len(pending[i])]
                    earlier == pending[i][Len(pending[i]) - 1]
                IN  /\ Shows(serial', i, later)
                    /\ (earlier # later => ~Shows(serial', i, earlier))]_vars

\* C6: a record {id=i, rssi=r, mac=m} accepted between two lines, and not
\* followed by another for i: the next line has field 2i-1 = r, field 2i = m
\* and field 0 = DATA.
C6_AcceptedRecordShown ==
    [][PrintStep =>
        /\ Field(serial', 0) = DataTag
        /\ \A i \in 2 .. 10 :
              pending[i] # <<>> => Shows(serial', i, pending[i][Len(pending[i])])]_vars

\* C7: delivering the same valid record a second time, right after the
\* first, leaves the table as the first delivery left it.
C7_Idempotent ==
    [][(RecvStep /\ repeat' >= 2
          /\ incoming'.id >= 2 /\ incoming'.id <= 10 /\ incoming'.rssi < 0)
        => TableUnchanged]_vars

\* the same valid record has been delivered twice in a row
C7_Witness ==
    /\ repeat >= 2
    /\ incoming.id >= 2 /\ incoming.id <= 10 /\ incoming.rssi < 0
    /\ nodeSignals[incoming.id] = incoming.rssi

\* C8: the line written by Serial.println, read back as 10 pairs, is the
\* table's slots 1..10 at that moment.
C8_RoundTrip ==
    [][(hubPc = "print" /\ hubPc' = "delay") =>
         ParsePairs(serial') =
            [i \in 1 .. 10 |-> [reading |-> {nodeSignals[i]}, address |-> nodeMacs[i]]]]_vars

\* the fields of identities 2..10: everything after DATA, reading 1, address 1
RemoteFields(line) == FromField(line, 3)

\* C9: while no scan has held the target label, field 1 of every DATA line is
\* -100 and the fields of identities 2..10 are those of the line built with
\* the target found.
C9_TargetNeverFound ==
    (~everFound /\ DataEmitted) =>
        /\ Field(serial, 1) = SentinelText
        /\ RemoteFields(serial) = RemoteFields(serialShadow)

\* a DATA line showing an accepted record was written and no scan has held
\* the target
C9_Witness ==
    /\ ~everFound
    /\ DataEmitted
    /\ 2 \in acceptedIds
    /\ Field(serial, 3) # SentinelText

\* C10: every DATA line written has exactly 21 comma-separated fields.
C10_TwentyOneFields == DataEmitted => FieldCount(serial) = 21

\* esp_now_init() answered non-zero in the Hub's setup()
HubInitFailed == ~recvRegistered /\ hubPc # "setup"

\* esp_now_init() answered non-zero in the Satellite's setup()
SatInitFailed == ~satEspNow /\ satPc # "setup"

\* a call of esp_now_send is the step taken
SendStep == sendCount' = sendCount + 1

\* the Hub writes no DATA line once its esp_now_init has failed
C11_HubHalts == HubInitFailed => ~DataEmitted

\* the Satellite neither scans nor sends once its esp_now_init has failed
C11_SatelliteHalts == SatInitFailed => (satPc = "scan" /\ sendCount = 0)

\* C11: after esp_now_init fails the device halts its loop role: the Hub
\* writes no DATA line, the Satellite makes no scan and no send attempt.
C11_HaltsAfterInitFailure == C11_HubHalts /\ C11_SatelliteHalts

\* C12: every call of esp_now_send happens with the Hub registered as a peer.
C12_PeerBeforeSend == [][SendStep => peerAdded]_vars

\* C13: a cycle of the Satellite never holds more than one call of
\* esp_now_send, and holds exactly one when it ends, whatever the scan
\* returned and whatever esp_now_send answered.
C13_OneSendPerCycle ==
    /\ [](sendCount <= 1)
    /\ [][(satPc = "delay" /\ satPc' = "scan") => sendCount = 1]_vars
    /\ [][(SendStep /\ sendResult' # 0) => satPc' # "send"]_vars

\* a cycle whose scan found nothing and whose send failed with the peer
\* registered has reached its delay
C13_Witness ==
    /\ satPc = "delay"
    /\ satScan.n = 0
    /\ peerAdded
    /\ sendResult # 0
    /\ sendCount = 1

\* C14: the record handed to esp_now_send carries identity 9, the
\* Satellite's own address, and as reading the first, strongest entry of
\* this cycle's scan, or -100 when the scan found nothing or failed.
C14_RecordContents ==
    [][SendStep =>
        /\ sentRecord'.id = 9
        /\ sentRecord'.mac = SatMac
        /\ (satScan.n >= 1 =>
               /\ sentRecord'.rssi = satScan.nets[1]
               /\ \A k \in 1 .. satScan.n : satScan.nets[k] <= sentRecord'.rssi)
        /\ (satScan.n < 1 => sentRecord'.rssi = 0 - 100)]_vars

\* a record was sent after a scan that held two entries of different strength
C14_Witness ==
    /\ satPc = "log"
    /\ satScan.n = 2
    /\ satScan.nets[1] # satScan.nets[2]
    /\ sentRecord.rssi = satScan.nets[1]

\* C15: the Satellite always comes back to its scan; after a failed send it
\* reaches the delay and then the next scan, as after a successful one.
C15_AlwaysScansAgain ==
    /\ []<>(satPc = "scan")
    /\ ((satPc = "log" /\ sendResult # 0) ~> (satPc = "delay"))
    /\ ((satPc = "log" /\ sendResult = 0) ~> (satPc = "delay"))
    /\ ((satPc = "delay") ~> (satPc = "scan"))

\* the Satellite is back at its scan after a cycle whose send failed
C15_Witness ==
    /\ satPc = "scan"
    /\ sendCount = 1
    /\ sendResult # 0
    /\ peerAdded

\* loop() goes from its delay back to the scan: a pass has ended
PassEnds == hubPc = "delay" /\ hubPc' = "scan"

\* C16: every pass of the Hub's loop() writes exactly one DATA line, a scan
\* that failed or found nothing gives field 1 = -100 in it, and the Hub
\* writes lines again and again whatever the receive callback does.
C16_OneLinePerPass ==
    /\ [](lines <= 1)
    /\ [][PassEnds => lines = 1]_vars
    /\ [][(PrintStep /\ scanNone) =>
            (Field(serial', 0) = DataTag /\ Field(serial', 1) = SentinelText)]_vars
    /\ ((hubPc = "start") ~> (hubPc = "delay"))
    /\ []<>(hubPc = "delay" /\ lines = 1)

\* a line was written in a pass whose scan found nothing, after deliveries
C16_Witness ==
    /\ hubPc = "delay"
    /\ lines = 1
    /\ scanNone
    /\ delivered >= 2
    /\ Field(serial, 1) = SentinelText

\* slot j of the table is the same before and after the step
SlotUnchanged(j) == nodeSignals'[j] = nodeSignals[j] /\ nodeMacs'[j] = nodeMacs[j]

\* the sentinel loop of setup() is over
AfterInit == hubPc # "setup" /\ hubPc # "init"

\* C17: a delivery changes no slot other than the one its identity names;
\* the steps of loop() change no slot 2..10; after setup() a slot 2..10
\* changes only by a delivery that is accepted and names it.
C17_TableFrame ==
    [][/\ RecvStep => \A j \in 0 .. 10 : j # incoming'.id => SlotUnchanged(j)
       /\ (AfterInit /\ ~RecvStep) => \A j \in 2 .. 10 : SlotUnchanged(j)
       /\ AfterInit =>
            \A j \in 2 .. 10 :
                ~SlotUnchanged(j) =>
                    /\ RecvStep
                    /\ incoming'.id = j
                    /\ incoming'.rssi < 0
                    /\ nodeSignals'[j] = incoming'.rssi
                    /\ nodeMacs'[j] = incoming'.mac]_vars

\* after setup() a record for identity 2 has just been stored while slot 10
\* still holds what it held
C17_Witness ==
    /\ AfterInit
    /\ repeat > 0
    /\ incoming.id = 2
    /\ nodeSignals[2] = incoming.rssi
    /\ nodeMacs[2] = incoming.mac
    /\ nodeSignals[10] = 0 - 100
    /\ delivered >= 2

\* the address a line shows for identity i; the last one runs to the end of
\* the line
ShownAddress(line, i) ==
    IF i = 10 THEN FromField(line, 2 * i) ELSE Field(line, 2 * i)

\* C18: in every DATA line and for every identity 2..10, the reading and the
\* address shown are both the sentinel's or both those of one delivered
\* record for that identity.
C18_NoTornPair ==
    [][(PrintStep /\ recvRegistered) =>
        \A i \in 2 .. 10 :
            \/ /\ Field(serial', 2 * i - 1) = SentinelText
               /\ ShownAddress(serial', i) = SentinelMac
            \/ \E d \in Deliveries :
                /\ d.buf.id = i
                /\ Field(serial', 2 * i - 1) = StringOfInt(d.buf.rssi)
                /\ ShownAddress(serial', i) = d.buf.mac]_vars

\* C19: once a record for identity i has been accepted, slot i changes only
\* by the acceptance of another record for i; setup() does not touch it.
C19_NotErasedByStartup ==
    [][\A i \in 2 .. 10 :
         (i \in acceptedIds /\ ~SlotUnchanged(i)) =>
             (RecvStep /\ incoming'.id = i /\ incoming'.rssi < 0)]_vars

\* C20: in every DATA line the reading of each identity 2..10 is an integer
\* below zero.
C20_ReadingsNegative ==
    DataEmitted =>
        \A i \in 2 .. 10 :
            /\ ParseInt(Field(serial, 2 * i - 1)) # {}
            /\ \A v \in ParseInt(Field(serial, 2 * i - 1)) : v < 0

Spec == Init /\ [][Next]_vars

\* setup() and loop() keep running: every call they make returns, and the
\* receive callback returns to them
FairSpec == Spec /\ WF_vars(HubStep)

SatSpec == Init /\ [][SatNext]_vars

\* loop() is called again and again, and every call it makes returns
SatFairSpec == SatSpec /\ WF_vars(SatNext)
====
